---- MODULE Spec2Model ----
(***************************************************************************)
(* Model of src/ring-buffer/ring-buffer.py: class RingBuffer, a set of     *)
(* fixed-capacity circular queues ("rows") over one numpy slot matrix and  *)
(* two per-row index vectors, with batched push_front / push_back /        *)
(* pop_back and the whole-buffer reads get_entries /                       *)
(* get_number_of_entries.                                                  *)
(*                                                                         *)
(* A further specification runs two write calls of the buffer              *)
(* concurrently, one step per numpy statement of the source.               *)
(*                                                                         *)
(* A second, independent part models src/palindrom/palindrom.py: the pure  *)
(* function is_palindrom over words of a small alphabet.                   *)
(*                                                                         *)
(* Rows and slots are numbered from 0 as in the source; batches (the       *)
(* `rows` and `entries` arrays) are TLA+ sequences, indexed from 1.        *)
(***************************************************************************)
EXTENDS Integers, Sequences, FiniteSets

\* ------------------------------------------------------------------ bounds
\* Largest number_rows / number_entries a constructor call is given, and the
\* largest slot matrix (number_rows * row_length) that is explored.
MaxRows == 2
MaxEntries == 3
MaxSlots == 4
\* Entries and uninitialised slot contents are drawn from 0..MaxVal.
MaxVal == 1
\* Longest batch (len(rows)) and largest offset given to get_entries.
MaxBatch == 2
MaxOffset == 4
\* Longest word given to is_palindrom.
MaxWord == 5

\* The value get_entries returns where a row has no entry (line 96).
Sentinel == -1

Vals == 0..MaxVal

\* ------------------------------------------------------------------ state
VARIABLES
    number_rows,   \* self.number_rows
    row_length,    \* self.row_length = number_entries + 1
    buf,           \* self.buf: row -> slot -> integer
    begin,         \* self.begin: row -> slot index of the back entry
    end,           \* self.end: row -> slot index one past the front entry
    last,          \* the call that just returned: its name, arguments and outcome
    deque,         \* history: per row, the entries pushed and not yet popped, back to front
    unique,        \* history: every successful batch so far addressed pairwise distinct rows
    front_only,    \* history: per row, no successful push_back has addressed the row
    popped,        \* history: the rows some successful pop_back has addressed
    pushes,        \* history: per row not in popped, the successful pushes that addressed it
    after_push,    \* history: after a pop_back, the push that returned just before it, if one succeeded
    word,          \* palindrom.py: the argument of is_palindrom, a sequence of characters
    returned,      \* palindrom.py: is_palindrom has returned
    answer,        \* palindrom.py: the value is_palindrom returned
    thread,        \* concurrent calls: per thread, its call, the line it is at and its locals
    at_start,      \* concurrent calls: buf, begin and end when the two calls started
    interleaved    \* concurrent calls: some step was taken while the other call was under way

state == <<number_rows, row_length, buf, begin, end>>
history == <<deque, unique, front_only, popped, pushes>>
vars == <<number_rows, row_length, buf, begin, end, last,
          deque, unique, front_only, popped, pushes, after_push,
          word, returned, answer, thread, at_start, interleaved>>

Rows == 0..(number_rows - 1)
Slots == 0..(row_length - 1)

\* The capacity handed to the constructor (line 25: row_length = number_entries + 1).
number_entries == row_length - 1

\* ------------------------------------------------------------------ numpy indexing
\* The set of rows a batch addresses.
Addressed(rows) == {rows[i] : i \in 1..Len(rows)}

\* A uniqueness test that compares the two sizes the wrong way round.
HasMoreUnique(rows) == Cardinality(Addressed(rows)) > Len(rows)

\* np.unique(rows).size != len(rows.tolist())   (line 38)
HasDuplicates(rows) == Cardinality(Addressed(rows)) # Len(rows)

\* a[rows]: the gathered vector, one element per batch position.
Gather(a, rows) == [i \in 1..Len(rows) |-> a[rows[i]]]

\* An indexed assignment a[rows] = vals sets an element that is addressed
\* twice in an order numpy does not fix: w names, per addressed row, the batch
\* position whose value stays.
Winners(rows) ==
    {w \in [Addressed(rows) -> 1..Len(rows)] : \A r \in Addressed(rows) : rows[w[r]] = r}

\* An assignment a[:] = vals[0], which writes every row and not the addressed ones.
AssignVecAllRows(a, rows, vals, w) == [r \in DOMAIN a |-> vals[1]]

\* a[rows] = vals for an index vector a.
AssignVec(a, rows, vals, w) ==
    [r \in DOMAIN a |-> IF r \in Addressed(rows) THEN vals[w[r]] ELSE a[r]]

\* An assignment m[rows, cols] = vals[0], which stores the first value in every row.
AssignMatFirstValue(m, rows, cols, vals, w) ==
    [r \in DOMAIN m |-> IF r \in Addressed(rows)
                        THEN [m[r] EXCEPT ![cols[w[r]]] = vals[1]]
                        ELSE m[r]]

\* m[rows, cols] = vals for the slot matrix m.
AssignMat(m, rows, cols, vals, w) ==
    [r \in DOMAIN m |-> IF r \in Addressed(rows)
                        THEN [m[r] EXCEPT ![cols[w[r]]] = vals[w[r]]]
                        ELSE m[r]]

\* ------------------------------------------------------------------ reads
\* get_number_of_entries (lines 98-100): (end - begin) % row_length per row.
get_number_of_entries == [r \in Rows |-> (end[r] - begin[r]) % row_length]

\* The mask of get_entries (lines 91-92).
not_empty(offset) ==
    [r \in Rows |-> /\ end[r] # begin[r]
                    /\ offset <= (begin[r] - end[r]) % row_length]

\* A get_entries that counts the offset from end instead of from the front slot.
entry_slot_from_end(offset) == [r \in Rows |-> (end[r] - offset) % row_length]

\* A get_entries that does not wrap the slot index.
entry_slot_unwrapped(offset) == [r \in Rows |-> end[r] - offset - 1]

\* The slot get_entries reads in each row (line 95).
entry_slot(offset) == [r \in Rows |-> (end[r] - offset - 1) % row_length]

\* get_entries (lines 93-96).
get_entries(offset) ==
    [r \in Rows |-> IF not_empty(offset)[r] THEN buf[r][entry_slot(offset)[r]]
                    ELSE Sentinel]

\* ------------------------------------------------------------------ history
\* The abstract double-ended queues: a push_front appends at the front (the
\* right end), a push_back at the back (the left end), a pop_back drops the
\* back element; a batch is applied position by position.
RECURSIVE DequePushFront(_, _, _, _)
DequePushFront(d, rows, entries, i) ==
    IF i > Len(rows) THEN d
    ELSE DequePushFront([d EXCEPT ![rows[i]] = Append(@, entries[i])], rows, entries, i + 1)

RECURSIVE DequePushBack(_, _, _, _)
DequePushBack(d, rows, entries, i) ==
    IF i > Len(rows) THEN d
    ELSE DequePushBack([d EXCEPT ![rows[i]] = <<entries[i]>> \o @], rows, entries, i + 1)

RECURSIVE DequePopBack(_, _, _)
DequePopBack(d, rows, i) ==
    IF i > Len(rows) THEN d
    ELSE DequePopBack([d EXCEPT ![rows[i]] = IF @ = <<>> THEN @ ELSE Tail(@)], rows, i + 1)

\* The queues are kept as long as every successful batch addressed pairwise
\* distinct rows; after that they are dropped.
Track(rows, d) ==
    /\ unique' = (unique /\ ~HasDuplicates(rows))
    /\ deque' = IF unique' THEN d ELSE [r \in Rows |-> <<>>]

\* A successful push counts once for every row it addresses.
CountPush(rows) ==
    pushes' = [r \in Rows |-> IF r \in Addressed(rows) /\ r \notin popped
                              THEN pushes[r] + 1 ELSE pushes[r]]

\* A successful pop ends the count of the rows it addresses.
CountPop(rows) ==
    /\ popped' = popped \cup Addressed(rows)
    /\ pushes' = [r \in Rows |-> IF r \in Addressed(rows) THEN 0 ELSE pushes[r]]

\* The record of a call. A failed push stored nothing and records no entries.
Call(op, rows, entries, offset, outcome, result) ==
    [op |-> op, rows |-> rows, entries |-> entries, offset |-> offset,
     outcome |-> outcome, result |-> result]

\* ------------------------------------------------------------------ construction
\* __init__ (lines 21-29): np.zeros fills the matrix with 0, np.empty leaves
\* every slot with whatever the memory held.
Construct(rows_arg, entries_arg) ==
    /\ number_rows = rows_arg
    /\ row_length = entries_arg + 1
    /\ number_rows * row_length <= MaxSlots
    /\ \E zeros \in BOOLEAN :
          buf \in IF zeros THEN {[r \in Rows |-> [s \in Slots |-> 0]]}
                           ELSE [Rows -> [Slots -> Vals]]
    /\ begin = [r \in Rows |-> 0]
    /\ end = [r \in Rows |-> 0]
    /\ last = Call("init", <<>>, <<>>, 0, "ok", <<>>)
    /\ deque = [r \in Rows |-> <<>>]
    /\ unique = TRUE
    /\ front_only = [r \in Rows |-> TRUE]
    /\ popped = {}
    /\ pushes = [r \in Rows |-> 0]
    /\ after_push = "none"
    /\ word = <<>>
    /\ returned = FALSE
    /\ answer = FALSE
    /\ thread = <<>>
    /\ at_start = <<>>
    /\ interleaved = FALSE

\* A buffer of at least one row and at least one entry per row.
Init ==
    \E rows_arg \in 1..MaxRows : \E entries_arg \in 1..MaxEntries :
        Construct(rows_arg, entries_arg)

\* __init__ tests neither argument: number_rows = 0 and number_entries = 0
\* build a buffer as well (np.zeros and np.empty accept a 0 in the shape).
InitUnchecked ==
    \E rows_arg \in 0..MaxRows : \E entries_arg \in 0..MaxEntries :
        Construct(rows_arg, entries_arg)

\* ------------------------------------------------------------------ push_front
\* A push_front that stores at the slot after the front one.
front_new_shifted(rows) == [i \in 1..Len(rows) |-> (end[rows[i]] + 1) % row_length]

\* rows_new = rows_end (lines 41-42)
front_new(rows) == Gather(end, rows)

\* A push_front that advances end without wrapping it.
front_end_after_unwrapped(rows) == [i \in 1..Len(rows) |-> end[rows[i]] + 1]

\* rows_end_after (line 43)
front_end_after(rows) == [i \in 1..Len(rows) |-> (end[rows[i]] + 1) % row_length]

\* A push_front that takes begin = end for full, as if no slot were reserved.
front_full_unreserved(rows) == \E i \in 1..Len(rows) : begin[rows[i]] = end[rows[i]]

\* (rows_begin == rows_end_after).any()   (line 44)
front_full(rows) ==
    \E i \in 1..Len(rows) : begin[rows[i]] = front_end_after(rows)[i]

\* push_front (lines 31-47)
push_front(rows, entries) ==
    IF HasDuplicates(rows) THEN
        /\ last' = Call("push_front", rows, <<>>, 0, "duplicate", <<>>)
        /\ UNCHANGED <<state, history>>
    ELSE IF front_full(rows) THEN
        /\ last' = Call("push_front", rows, <<>>, 0, "full", <<>>)
        /\ UNCHANGED <<state, history>>
    ELSE
        /\ \E w \in Winners(rows) :
              /\ buf' = AssignMat(buf, rows, front_new(rows), entries, w)
              /\ end' = AssignVec(end, rows, front_end_after(rows), w)
        /\ last' = Call("push_front", rows, entries, 0, "ok", <<>>)
        /\ Track(rows, DequePushFront(deque, rows, entries, 1))
        /\ CountPush(rows)
        /\ UNCHANGED <<number_rows, row_length, begin, front_only, popped>>

\* ------------------------------------------------------------------ push_back
\* rows_new (line 57), which is rows_begin_after as well (line 58)
back_new(rows) == [i \in 1..Len(rows) |-> (begin[rows[i]] - 1) % row_length]

\* A push_back that fails only when every addressed row is full.
back_full_all(rows) ==
    \A i \in 1..Len(rows) : (begin[rows[i]] - 1) % row_length = end[rows[i]]

\* (rows_begin_after == rows_end).any()   (line 59)
back_full(rows) ==
    \E i \in 1..Len(rows) : back_new(rows)[i] = end[rows[i]]

\* push_back (lines 49-63)
push_back(rows, entries) ==
    IF back_full(rows) THEN
        /\ last' = Call("push_back", rows, <<>>, 0, "full", <<>>)
        /\ UNCHANGED <<state, history>>
    ELSE
        /\ \E w \in Winners(rows) :
              /\ buf' = AssignMat(buf, rows, back_new(rows), entries, w)
              /\ begin' = AssignVec(begin, rows, back_new(rows), w)
        /\ last' = Call("push_back", rows, entries, 0, "ok", <<>>)
        /\ Track(rows, DequePushBack(deque, rows, entries, 1))
        /\ CountPush(rows)
        /\ front_only' = [r \in Rows |-> front_only[r] /\ r \notin Addressed(rows)]
        /\ UNCHANGED <<number_rows, row_length, end, popped>>

\* ------------------------------------------------------------------ pop_back
\* A pop_back that fails only when every addressed row is empty.
all_empty(rows) == \A i \in 1..Len(rows) : begin[rows[i]] = end[rows[i]]

\* (rows_begin == rows_end).any()   (line 75)
any_empty(rows) == \E i \in 1..Len(rows) : begin[rows[i]] = end[rows[i]]

\* A pop_back that returns the values in the reverse of the order of rows.
pop_values_reversed(rows) ==
    [i \in 1..Len(rows) |-> buf[rows[Len(rows) + 1 - i]][begin[rows[Len(rows) + 1 - i]]]]

\* A pop_back that returns the front (newest) entry of each row.
pop_values_front(rows) ==
    [i \in 1..Len(rows) |-> buf[rows[i]][(end[rows[i]] - 1) % row_length]]

\* values = self.buf[rows, rows_begin]   (line 77)
pop_values(rows) == [i \in 1..Len(rows) |-> buf[rows[i]][begin[rows[i]]]]

\* rows_begin_after (line 78)
pop_begin_after(rows) == [i \in 1..Len(rows) |-> (begin[rows[i]] + 1) % row_length]

\* pop_back (lines 65-80)
pop_back(rows) ==
    IF any_empty(rows) THEN
        /\ last' = Call("pop_back", rows, <<>>, 0, "empty", <<>>)
        /\ UNCHANGED <<state, history>>
    ELSE
        /\ \E w \in Winners(rows) :
              begin' = AssignVec(begin, rows, pop_begin_after(rows), w)
        /\ last' = Call("pop_back", rows, <<>>, 0, "ok", pop_values(rows))
        /\ Track(rows, DequePopBack(deque, rows, 1))
        /\ CountPop(rows)
        /\ UNCHANGED <<number_rows, row_length, buf, end, front_only>>

\* ------------------------------------------------------------------ read calls
\* A numpy result vector as a sequence, row 0 first.
AsSeq(a) == [i \in 1..number_rows |-> a[i - 1]]

\* A call of get_entries(offset) (lines 82-96).
GetEntries(offset) ==
    /\ last' = Call("get_entries", <<>>, <<>>, offset, "ok", AsSeq(get_entries(offset)))
    /\ UNCHANGED <<state, history>>

\* A call of get_number_of_entries() (lines 98-100).
GetNumberOfEntries ==
    /\ last' = Call("get_number_of_entries", <<>>, <<>>, 0, "ok",
                    AsSeq(get_number_of_entries))
    /\ UNCHANGED <<state, history>>

\* ------------------------------------------------------------------ specification
\* The batches a caller hands over: 1..MaxBatch row indices, with as many entries.
Batches == UNION {[1..n -> Rows] : n \in 1..MaxBatch}
EntriesFor(rows) == [1..Len(rows) -> Vals]

\* What a call of the buffer leaves behind besides its own effect: the note
\* of a pop_back that follows a successful push directly.
Sequel ==
    /\ after_push' = IF /\ last'.op = "pop_back"
                        /\ last.op \in {"push_front", "push_back"}
                        /\ last.outcome = "ok"
                     THEN last.op ELSE "none"
    /\ UNCHANGED <<word, returned, answer, thread, at_start, interleaved>>

Next ==
    \/ \E rows \in Batches : \E entries \in EntriesFor(rows) :
          push_front(rows, entries) /\ Sequel
    \/ \E rows \in Batches : \E entries \in EntriesFor(rows) :
          push_back(rows, entries) /\ Sequel
    \/ \E rows \in Batches : pop_back(rows) /\ Sequel
    \/ \E offset \in 0..MaxOffset : GetEntries(offset) /\ Sequel
    \/ GetNumberOfEntries /\ Sequel

Spec == Init /\ [][Next]_vars

\* The calls on a buffer built from any number_rows >= 0 and number_entries >= 0.
SpecUnchecked == InitUnchecked /\ [][Next]_vars

\* ------------------------------------------------------------------ palindrom.py
\* The characters of the words: two lower-case letters, their upper-case
\* forms and a character that is no letter.
Alphabet == {"a", "b", "A", "B", " "}
Words == UNION {[1..n -> Alphabet] : n \in 0..MaxWord}

\* The characters the pattern [a-z] matches.
AToZ == {"a", "b"}

\* str.lower() on one character.
LowerChar(c) == CASE c = "A" -> "a" [] c = "B" -> "b" [] OTHER -> c

\* An is_palindrom that does not lower-case the word.
lower_skipped(w) == w

\* word.lower()   (line 6)
lower(w) == [i \in 1..Len(w) |-> LowerChar(w[i])]

\* re.sub('[^a-z]', '', word)   (line 7)
RECURSIVE sub_not_a_to_z(_)
sub_not_a_to_z(w) ==
    IF w = <<>> THEN <<>>
    ELSE (IF Head(w) \in AToZ THEN <<Head(w)>> ELSE <<>>) \o sub_not_a_to_z(Tail(w))

\* A slice bound as Python normalises it for a word of length n: a negative
\* bound counts from the end; what is still outside is clamped, to 0 and n
\* for step 1, to -1 and n - 1 for step -1.
BoundUp(k, n) ==
    LET j == IF k < 0 THEN k + n ELSE k
    IN  IF j < 0 THEN 0 ELSE IF j > n THEN n ELSE j
BoundDown(k, n) ==
    LET j == IF k < 0 THEN k + n ELSE k
    IN  IF j < 0 THEN -1 ELSE IF j >= n THEN n - 1 ELSE j

\* w[start:stop]: the characters at (0-based) start, start + 1, ... below stop.
SliceUp(w, start, stop) ==
    LET lo == BoundUp(start, Len(w))
        hi == BoundUp(stop, Len(w))
    IN  [i \in 1..(IF hi > lo THEN hi - lo ELSE 0) |-> w[lo + i]]

\* w[start:stop:-1]: the characters at (0-based) start, start - 1, ... above stop.
SliceDown(w, start, stop) ==
    LET hi == BoundDown(start, Len(w))
        lo == BoundDown(stop, Len(w))
    IN  [i \in 1..(IF hi > lo THEN hi - lo ELSE 0) |-> w[hi + 2 - i]]

\* is_palindrom (lines 5-10)
is_palindrom(w) ==
    LET lowered == lower(w)
        letters == sub_not_a_to_z(lowered)
        N == Len(letters)
        M == N \div 2
    IN  SliceUp(letters, 0, M) = SliceDown(letters, N - 1, N - 1 - M)

\* No buffer is involved in a call of is_palindrom.
NoBuffer ==
    /\ number_rows = 0
    /\ row_length = 1
    /\ buf = <<>>
    /\ begin = <<>>
    /\ end = <<>>
    /\ last = Call("none", <<>>, <<>>, 0, "ok", <<>>)
    /\ deque = <<>>
    /\ unique = TRUE
    /\ front_only = <<>>
    /\ popped = {}
    /\ pushes = <<>>
    /\ after_push = "none"
    /\ thread = <<>>
    /\ at_start = <<>>
    /\ interleaved = FALSE

InitPalindrom ==
    /\ NoBuffer
    /\ word \in Words
    /\ returned = FALSE
    /\ answer = FALSE

\* The call is_palindrom(word).
IsPalindrom ==
    /\ ~returned
    /\ returned' = TRUE
    /\ answer' = is_palindrom(word)
    /\ UNCHANGED <<state, history, last, after_push, word, thread, at_start, interleaved>>

NextPalindrom == IsPalindrom

SpecPalindrom == InitPalindrom /\ [][NextPalindrom]_vars

\* ------------------------------------------------------------------ concurrent calls
\* Two threads each make one write call on a shared buffer. A thread takes
\* one step per statement of the source that reads or writes self.buf,
\* self.begin or self.end (each numpy indexing runs as a whole); the tests on
\* locals that follow a read belong to its step. pc is the line of the next
\* such statement, Returned once the call is over.
Threads == {1, 2}
Returned == 0

\* The batches of the concurrent calls name pairwise distinct rows.
DistinctBatches == {rows \in Batches : ~HasDuplicates(rows)}

FirstLine(op) ==
    CASE op = "push_front" -> 38 [] op = "push_back" -> 56 [] op = "pop_back" -> 73

\* Thread t pushes the value t - 1 at every position of its batch.
Frame(t, op, rows) ==
    [op |-> op, rows |-> rows,
     entries |-> IF op = "pop_back" THEN <<>> ELSE [i \in 1..Len(rows) |-> t - 1],
     pc |-> FirstLine(op),
     rows_begin |-> <<>>, rows_end |-> <<>>, after |-> <<>>,
     outcome |-> "none", values |-> <<>>]

\* A buffer in any state the calls of Spec lead to, and two calls about to start.
InitConcurrent ==
    /\ number_rows \in 1..MaxRows
    /\ \E n \in 1..MaxEntries : row_length = n + 1
    /\ number_rows * row_length <= MaxSlots
    /\ buf \in [Rows -> [Slots -> Vals]]
    /\ begin \in [Rows -> Slots]
    /\ end \in [Rows -> Slots]
    /\ last = Call("none", <<>>, <<>>, 0, "ok", <<>>)
    /\ deque = <<>>
    /\ unique = TRUE
    /\ front_only = <<>>
    /\ popped = {}
    /\ pushes = <<>>
    /\ after_push = "none"
    /\ word = <<>>
    /\ returned = FALSE
    /\ answer = FALSE
    /\ \E op1, op2 \in {"push_front", "push_back", "pop_back"} :
       \E rows1, rows2 \in DistinctBatches :
          thread = [t \in Threads |-> IF t = 1 THEN Frame(1, op1, rows1)
                                               ELSE Frame(2, op2, rows2)]
    /\ at_start = [buf |-> buf, begin |-> begin, end |-> end]
    /\ interleaved = FALSE

\* The other call has started and not returned.
OtherUnderWay(t) ==
    \E u \in Threads \ {t} :
        /\ thread[u].pc # Returned
        /\ thread[u].pc # FirstLine(thread[u].op)

\* Thread t is at line `line` of op; its step leaves everything but the
\* buffer and its own frame alone.
At(t, op, line) ==
    /\ thread[t].op = op
    /\ thread[t].pc = line
    /\ interleaved' = (interleaved \/ OtherUnderWay(t))
    /\ UNCHANGED <<number_rows, row_length, last, history, after_push,
                   word, returned, answer, at_start>>

Raise(t, error) ==
    thread' = [thread EXCEPT ![t].pc = Returned, ![t].outcome = error]

\* push_front, lines 38-40: the uniqueness test, then rows_begin = self.begin[rows]
PushFront40(t) ==
    /\ At(t, "push_front", 38)
    /\ IF HasDuplicates(thread[t].rows)
       THEN Raise(t, "duplicate")
       ELSE thread' = [thread EXCEPT ![t].pc = 41,
                                     ![t].rows_begin = Gather(begin, thread[t].rows)]
    /\ UNCHANGED <<buf, begin, end>>

\* push_front, lines 41-42: rows_end = self.end[rows]; rows_new = rows_end
PushFront41(t) ==
    /\ At(t, "push_front", 41)
    /\ thread' = [thread EXCEPT ![t].pc = 43,
                                ![t].rows_end = Gather(end, thread[t].rows)]
    /\ UNCHANGED <<buf, begin, end>>

\* push_front, lines 43-45: rows_end_after from a second read of self.end,
\* then the full test on the locals
PushFront43(t) ==
    /\ At(t, "push_front", 43)
    /\ LET after == front_end_after(thread[t].rows)
       IN  IF \E i \in 1..Len(after) : thread[t].rows_begin[i] = after[i]
           THEN Raise(t, "full")
           ELSE thread' = [thread EXCEPT ![t].pc = 46, ![t].after = after]
    /\ UNCHANGED <<buf, begin, end>>

\* push_front, line 46: self.buf[rows, rows_new] = entries
PushFront46(t) ==
    /\ At(t, "push_front", 46)
    /\ \E w \in Winners(thread[t].rows) :
          buf' = AssignMat(buf, thread[t].rows, thread[t].rows_end, thread[t].entries, w)
    /\ thread' = [thread EXCEPT ![t].pc = 47]
    /\ UNCHANGED <<begin, end>>

\* An index write that adds 1 to what self.end holds at the time of the write.
front_end_written_fresh(t) == front_end_after(thread[t].rows)

\* The vector line 47 stores: the local rows_end_after.
front_end_written(t) == thread[t].after

\* push_front, line 47: self.end[rows] = rows_end_after
PushFront47(t) ==
    /\ At(t, "push_front", 47)
    /\ \E w \in Winners(thread[t].rows) :
          end' = AssignVec(end, thread[t].rows, front_end_written(t), w)
    /\ thread' = [thread EXCEPT ![t].pc = Returned, ![t].outcome = "ok"]
    /\ UNCHANGED <<buf, begin>>

\* push_back, line 56: rows_end = self.end[rows]
PushBack56(t) ==
    /\ At(t, "push_back", 56)
    /\ thread' = [thread EXCEPT ![t].pc = 57,
                                ![t].rows_end = Gather(end, thread[t].rows)]
    /\ UNCHANGED <<buf, begin, end>>

\* push_back, lines 57-60: rows_new and rows_begin_after from self.begin,
\* then the full test on the locals
PushBack57(t) ==
    /\ At(t, "push_back", 57)
    /\ LET after == back_new(thread[t].rows)
       IN  IF \E i \in 1..Len(after) : after[i] = thread[t].rows_end[i]
           THEN Raise(t, "full")
           ELSE thread' = [thread EXCEPT ![t].pc = 61, ![t].after = after]
    /\ UNCHANGED <<buf, begin, end>>

\* push_back, line 61: self.buf[rows, rows_new] = entries
PushBack61(t) ==
    /\ At(t, "push_back", 61)
    /\ \E w \in Winners(thread[t].rows) :
          buf' = AssignMat(buf, thread[t].rows, thread[t].after, thread[t].entries, w)
    /\ thread' = [thread EXCEPT ![t].pc = 62]
    /\ UNCHANGED <<begin, end>>

\* push_back, line 62: self.begin[rows] = rows_begin_after
PushBack62(t) ==
    /\ At(t, "push_back", 62)
    /\ \E w \in Winners(thread[t].rows) :
          begin' = AssignVec(begin, thread[t].rows, thread[t].after, w)
    /\ thread' = [thread EXCEPT ![t].pc = Returned, ![t].outcome = "ok"]
    /\ UNCHANGED <<buf, end>>

\* pop_back, line 73: rows_begin = self.begin[rows]
PopBack73(t) ==
    /\ At(t, "pop_back", 73)
    /\ thread' = [thread EXCEPT ![t].pc = 74,
                                ![t].rows_begin = Gather(begin, thread[t].rows)]
    /\ UNCHANGED <<buf, begin, end>>

\* pop_back, lines 74-76: rows_end = self.end[rows], then the empty test on
\* the locals
PopBack74(t) ==
    /\ At(t, "pop_back", 74)
    /\ LET rows_end == Gather(end, thread[t].rows)
       IN  IF \E i \in 1..Len(rows_end) : thread[t].rows_begin[i] = rows_end[i]
           THEN Raise(t, "empty")
           ELSE thread' = [thread EXCEPT ![t].pc = 77, ![t].rows_end = rows_end]
    /\ UNCHANGED <<buf, begin, end>>

\* pop_back, line 77: values = self.buf[rows, rows_begin]
PopBack77(t) ==
    /\ At(t, "pop_back", 77)
    /\ thread' = [thread EXCEPT
                     ![t].pc = 78,
                     ![t].values = [i \in 1..Len(thread[t].rows) |->
                                       buf[thread[t].rows[i]][thread[t].rows_begin[i]]]]
    /\ UNCHANGED <<buf, begin, end>>

\* pop_back, line 78: rows_begin_after from a second read of self.begin
PopBack78(t) ==
    /\ At(t, "pop_back", 78)
    /\ thread' = [thread EXCEPT ![t].pc = 79,
                                ![t].after = pop_begin_after(thread[t].rows)]
    /\ UNCHANGED <<buf, begin, end>>

\* pop_back, lines 79-80: self.begin[rows] = rows_begin_after; return values
PopBack79(t) ==
    /\ At(t, "pop_back", 79)
    /\ \E w \in Winners(thread[t].rows) :
          begin' = AssignVec(begin, thread[t].rows, thread[t].after, w)
    /\ thread' = [thread EXCEPT ![t].pc = Returned, ![t].outcome = "ok"]
    /\ UNCHANGED <<buf, end>>

NextConcurrent ==
    \/ \E t \in Threads : PushFront40(t)
    \/ \E t \in Threads : PushFront41(t)
    \/ \E t \in Threads : PushFront43(t)
    \/ \E t \in Threads : PushFront46(t)
    \/ \E t \in Threads : PushFront47(t)
    \/ \E t \in Threads : PushBack56(t)
    \/ \E t \in Threads : PushBack57(t)
    \/ \E t \in Threads : PushBack61(t)
    \/ \E t \in Threads : PushBack62(t)
    \/ \E t \in Threads : PopBack73(t)
    \/ \E t \in Threads : PopBack74(t)
    \/ \E t \in Threads : PopBack77(t)
    \/ \E t \in Threads : PopBack78(t)
    \/ \E t \in Threads : PopBack79(t)

SpecConcurrent == InitConcurrent /\ [][NextConcurrent]_vars

\* ------------------------------------------------------------------ serial reference
\* The calls as functions of a buffer st = [buf, begin, end], for a batch of
\* pairwise distinct rows: the buffer after the call, its outcome and the
\* values it returns.
OnlyWinner(rows) == CHOOSE w \in Winners(rows) : TRUE

Ran(st, outcome, values) == [st |-> st, outcome |-> outcome, values |-> values]

RunPushFront(st, rows, entries) ==
    LET rows_begin == Gather(st.begin, rows)
        rows_end == Gather(st.end, rows)
        after == [i \in 1..Len(rows) |-> (st.end[rows[i]] + 1) % row_length]
    IN  IF HasDuplicates(rows) THEN Ran(st, "duplicate", <<>>)
        ELSE IF \E i \in 1..Len(rows) : rows_begin[i] = after[i] THEN Ran(st, "full", <<>>)
        ELSE Ran([buf |-> AssignMat(st.buf, rows, rows_end, entries, OnlyWinner(rows)),
                  begin |-> st.begin,
                  end |-> AssignVec(st.end, rows, after, OnlyWinner(rows))], "ok", <<>>)

RunPushBack(st, rows, entries) ==
    LET rows_end == Gather(st.end, rows)
        after == [i \in 1..Len(rows) |-> (st.begin[rows[i]] - 1) % row_length]
    IN  IF \E i \in 1..Len(rows) : after[i] = rows_end[i] THEN Ran(st, "full", <<>>)
        ELSE Ran([buf |-> AssignMat(st.buf, rows, after, entries, OnlyWinner(rows)),
                  begin |-> AssignVec(st.begin, rows, after, OnlyWinner(rows)),
                  end |-> st.end], "ok", <<>>)

RunPopBack(st, rows) ==
    LET rows_begin == Gather(st.begin, rows)
        rows_end == Gather(st.end, rows)
        after == [i \in 1..Len(rows) |-> (st.begin[rows[i]] + 1) % row_length]
    IN  IF \E i \in 1..Len(rows) : rows_begin[i] = rows_end[i] THEN Ran(st, "empty", <<>>)
        ELSE Ran([buf |-> st.buf,
                  begin |-> AssignVec(st.begin, rows, after, OnlyWinner(rows)),
                  end |-> st.end], "ok",
                 [i \in 1..Len(rows) |-> st.buf[rows[i]][rows_begin[i]]])

Run(st, c) ==
    CASE c.op = "push_front" -> RunPushFront(st, c.rows, c.entries)
      [] c.op = "push_back" -> RunPushBack(st, c.rows, c.entries)
      [] c.op = "pop_back" -> RunPopBack(st, c.rows)

\* ------------------------------------------------------------------ properties
\* The entries of row r from the back slot begin[r] up to the front slot
\* (end[r] - 1) % row_length.
LiveSeq(r) ==
    [k \in 1..get_number_of_entries[r] |-> buf[r][(begin[r] + k - 1) % row_length]]

Full(r) == get_number_of_entries[r] = number_entries
Empty(r) == begin[r] = end[r]

\* C1: after construction and after every call, successful or failing, the
\* capacity is at least 1, begin[r] and end[r] lie in 0..row_length-1, and the
\* occupancy get_number_of_entries reports, (end[r] - begin[r]) mod
\* row_length, lies in 0..capacity, for every row r.
IndicesInRange ==
    /\ number_entries >= 1
    /\ row_length = number_entries + 1
    /\ \A r \in Rows :
          /\ 0 <= begin[r] /\ begin[r] < row_length
          /\ 0 <= end[r] /\ end[r] < row_length
          /\ 0 <= get_number_of_entries[r]
          /\ get_number_of_entries[r] <= number_entries
          /\ last.op = "get_number_of_entries" =>
                /\ last.result[r + 1] = (end[r] - begin[r]) % row_length
                /\ last.result[r + 1] \in 0..number_entries

\* C1 witness: a push has just failed on a full row whose live range wraps
\* past the end of the slot array.
FullWrappedRowSeen ==
    /\ last.outcome = "full"
    /\ \E r \in Rows : Full(r) /\ end[r] < begin[r] /\ r \in popped

\* C2: as long as every successful batch addressed pairwise distinct rows,
\* the slots from begin[r] to (end[r] - 1) mod row_length hold the abstract
\* double-ended queue of row r from back to front, the occupancy is its
\* length, the back entry is at slot begin[r] and the front entry at slot
\* (end[r] - 1) mod row_length.
RefinesDeque ==
    unique =>
        \A r \in Rows :
            /\ LiveSeq(r) = deque[r]
            /\ get_number_of_entries[r] = Len(deque[r])
            /\ deque[r] # <<>> =>
                  /\ buf[r][begin[r]] = Head(deque[r])
                  /\ buf[r][(end[r] - 1) % row_length] = deque[r][Len(deque[r])]

\* C2 witness: a row that was pushed at both ends and popped holds two
\* different entries in a live range that wraps.
MixedWrappedDequeSeen ==
    /\ unique
    /\ \E r \in Rows :
          /\ ~front_only[r] /\ r \in popped
          /\ Len(deque[r]) >= 2 /\ deque[r][1] # deque[r][2]
          /\ end[r] < begin[r]

\* The values a pop_back over rows returned for row r, in the order returned.
RECURSIVE ReturnedFor(_, _, _, _)
ReturnedFor(r, rows, result, i) ==
    IF i > Len(rows) THEN <<>>
    ELSE (IF rows[i] = r THEN <<result[i]>> ELSE <<>>) \o ReturnedFor(r, rows, result, i + 1)

IsPrefix(s, t) == Len(s) <= Len(t) /\ \A k \in 1..Len(s) : s[k] = t[k]

PopReturned == last'.op = "pop_back" /\ last'.outcome = "ok"

\* C3: FIFO order. For a row that received entries through push_front only,
\* deque[r] is the sequence of values pushed to r and not yet returned, in
\* the order pushed; the k-th value returned for r is the k-th value pushed
\* to r exactly when every pop_back returns, for r, the next values of that
\* sequence.
FifoOrder ==
    [][(PopReturned /\ unique) =>
          \A r \in Rows :
              front_only[r] =>
                  IsPrefix(ReturnedFor(r, last'.rows, last'.result, 1), deque[r])]_vars

PushReturned == last'.op \in {"push_front", "push_back"}

AddressesFull(rows) == \E i \in 1..Len(rows) : Full(rows[i])
AddressesEmpty(rows) == \E i \in 1..Len(rows) : Empty(rows[i])

\* C4 as stated: a push_front or push_back whose batch addresses a full row
\* fails with the buffer-full error and leaves begin, end and every slot of
\* every row as they were.
AtomicPushFailure ==
    [][(PushReturned /\ AddressesFull(last'.rows)) =>
          /\ last'.outcome = "full"
          /\ UNCHANGED <<buf, begin, end>>]_vars

\* C4 as amended: a push_front or push_back whose batch addresses a full row
\* fails and leaves begin, end and every slot of every row as they were; the
\* error is buffer-full, except that a push_front whose batch names a row
\* twice fails with the duplicate-row error, which is checked first.
AtomicPushFailureOrDuplicate ==
    [][(PushReturned /\ AddressesFull(last'.rows)) =>
          /\ last'.outcome =
                IF last'.op = "push_front" /\ HasDuplicates(last'.rows)
                THEN "duplicate" ELSE "full"
          /\ UNCHANGED <<buf, begin, end>>]_vars

\* C4 witness: a push over two rows, one full and one not, has just failed
\* with the buffer-full error.
PushFailedOnMixedBatch ==
    /\ last.op \in {"push_front", "push_back"}
    /\ last.outcome = "full"
    /\ \E i, j \in 1..Len(last.rows) : Full(last.rows[i]) /\ ~Full(last.rows[j])

\* C5: a pop_back whose batch addresses an empty row fails with the
\* buffer-empty error, returns no values, and leaves begin, end and every
\* slot of every row, the non-empty rows of the batch included, as they were.
AtomicPopFailure ==
    [][(last'.op = "pop_back" /\ AddressesEmpty(last'.rows)) =>
          /\ last'.outcome = "empty"
          /\ last'.result = <<>>
          /\ UNCHANGED <<buf, begin, end>>]_vars

\* C5 witness: a pop_back over two rows, one empty and one not, has just
\* failed with the buffer-empty error.
PopFailedOnMixedBatch ==
    /\ last.op = "pop_back"
    /\ last.outcome = "empty"
    /\ \E i, j \in 1..Len(last.rows) : Empty(last.rows[i]) /\ ~Empty(last.rows[j])

EntriesRead == last.op = "get_entries"

\* C6: get_entries(offset) returns the sentinel -1 for every row whose
\* occupancy is at most offset, so it never returns the content of a slot
\* outside the live range of the row.
OffsetReadBound ==
    EntriesRead =>
        \A r \in Rows :
            last.offset >= get_number_of_entries[r] => last.result[r + 1] = Sentinel

\* C7: get_entries(offset) returns, for every row holding more than offset
\* entries, the entry offset positions back from the front, the value at slot
\* (end[r] - offset - 1) mod row_length, and not the sentinel; offset =
\* occupancy - 1 gives the back entry, also of a full row.
OffsetReadPresent ==
    EntriesRead =>
        \A r \in Rows :
            last.offset < get_number_of_entries[r] =>
                /\ last.result[r + 1] = buf[r][(end[r] - last.offset - 1) % row_length]
                /\ last.result[r + 1] # Sentinel

\* C8: get_entries(0) returns the sentinel -1 for every empty row and, for
\* every other row, the front entry, the value at slot (end[r] - 1) mod
\* row_length, which is the newest entry of the abstract queue of the row.
FrontRead ==
    (EntriesRead /\ last.offset = 0) =>
        \A r \in Rows :
            IF Empty(r) THEN last.result[r + 1] = Sentinel
            ELSE /\ last.result[r + 1] = buf[r][(end[r] - 1) % row_length]
                 /\ last.result[r + 1] # Sentinel
                 /\ unique => last.result[r + 1] = deque[r][Len(deque[r])]

\* C8 witness: get_entries(0) has just returned the front entry of a full
\* row of two or more entries whose front entry differs from its back entry.
FrontReadSeen ==
    /\ EntriesRead /\ last.offset = 0
    /\ unique
    /\ \E r \in Rows :
          /\ Full(r) /\ get_number_of_entries[r] >= 2
          /\ deque[r][1] # deque[r][Len(deque[r])]
          /\ last.result[r + 1] = deque[r][Len(deque[r])]

\* Row r has received number_entries successful pushes and no pop.
FilledWithoutPop(r) == r \notin popped /\ pushes[r] = number_entries

\* C9 as stated: a fresh buffer reports occupancy 0 for every row; a row that
\* received exactly capacity successful pushes, of either kind, and no pop
\* reports occupancy capacity; and a further push_front or push_back that
\* addresses it fails with the buffer-full error.
FillThenFull ==
    [][\A r \in Rows :
          /\ last.op = "init" => get_number_of_entries[r] = 0
          /\ FilledWithoutPop(r) => get_number_of_entries[r] = number_entries
          /\ FilledWithoutPop(r)' => get_number_of_entries'[r] = number_entries
          /\ (FilledWithoutPop(r) /\ PushReturned /\ r \in Addressed(last'.rows)) =>
                last'.outcome = "full"]_vars

\* C9 as amended: as stated, except that the further push fails with the
\* duplicate-row error when it is a push_front whose batch names a row twice.
FillThenFullOrDuplicate ==
    [][\A r \in Rows :
          /\ last.op = "init" => get_number_of_entries[r] = 0
          /\ FilledWithoutPop(r) => get_number_of_entries[r] = number_entries
          /\ FilledWithoutPop(r)' => get_number_of_entries'[r] = number_entries
          /\ (FilledWithoutPop(r) /\ PushReturned /\ r \in Addressed(last'.rows)) =>
                last'.outcome =
                    IF last'.op = "push_front" /\ HasDuplicates(last'.rows)
                    THEN "duplicate" ELSE "full"]_vars

\* C9 witness: a row filled by pushes at both ends, never popped, reports
\* occupancy capacity >= 2 and has just refused a further push.
FilledRowRefusedPush ==
    \E r \in Rows :
        /\ FilledWithoutPop(r) /\ number_entries >= 2 /\ ~front_only[r]
        /\ buf[r][begin[r]] # buf[r][(end[r] - 1) % row_length]
        /\ get_number_of_entries[r] = number_entries
        /\ last.op \in {"push_front", "push_back"} /\ last.outcome = "full"
        /\ r \in Addressed(last.rows)

\* C10: a successful pop_back over pairwise distinct rows returns len(rows)
\* values, the i-th being the back entry row rows[i] held before the call,
\* and every addressed row loses exactly that entry: its begin advances by
\* one slot, its end and its remaining entries stay.
PopResultOrder ==
    [][(PopReturned /\ ~HasDuplicates(last'.rows)) =>
          /\ Len(last'.result) = Len(last'.rows)
          /\ \A i \in 1..Len(last'.rows) : \A r \in Rows :
                last'.rows[i] = r =>
                    /\ last'.result[i] = buf[r][begin[r]]
                    /\ unique => last'.result[i] = Head(deque[r])
                    /\ begin'[r] = (begin[r] + 1) % row_length
                    /\ end'[r] = end[r]
                    /\ get_number_of_entries'[r] = get_number_of_entries[r] - 1
                    /\ \A k \in 1..(get_number_of_entries[r] - 1) :
                          LiveSeq(r)'[k] = LiveSeq(r)[k + 1]]_vars

\* C10 witness: pop_back(rows = [1, 0]) has just returned two different
\* values, the back entry of row 1 first.
PopInRowsOrderSeen ==
    /\ last.op = "pop_back" /\ last.outcome = "ok"
    /\ last.rows = <<1, 0>>
    /\ last.result[1] # last.result[2]
    /\ unique

\* Some row index occurs at two positions of the batch.
Repeats(rows) == \E i, j \in 1..Len(rows) : i # j /\ rows[i] = rows[j]

\* C11: a push_front whose rows argument contains the same row index more
\* than once fails with the duplicate-row error and leaves begin, end and
\* every slot of every row as they were, also when an addressed row is full:
\* the duplicate check comes before the full check.
DuplicateRowsRejected ==
    [][(last'.op = "push_front" /\ Repeats(last'.rows)) =>
          /\ last'.outcome = "duplicate"
          /\ UNCHANGED <<buf, begin, end>>]_vars

\* C11 witness: push_front over a batch that names a full row twice has just
\* failed with the duplicate-row error.
DuplicateBeforeFullSeen ==
    /\ last.op = "push_front" /\ last.outcome = "duplicate"
    /\ Repeats(last.rows)
    /\ AddressesFull(last.rows)

\* C12: a push_back or pop_back whose rows argument addresses the same row
\* more than once fails with the duplicate-row error and changes no state.
BackAndPopRejectDuplicates ==
    [][(last'.op \in {"push_back", "pop_back"} /\ Repeats(last'.rows)) =>
          /\ last'.outcome = "duplicate"
          /\ UNCHANGED <<buf, begin, end>>]_vars

\* C13: construction with number_rows = 0 or number_entries = 0 fails and
\* yields no instance, so every buffer there is has at least one row and
\* capacity at least 1, and none of its rows is empty and full at once.
ConstructionValidated ==
    /\ number_rows # 0
    /\ number_entries # 0
    /\ \A r \in Rows : ~(Empty(r) /\ Full(r))

WriteReturned ==
    /\ last'.op \in {"push_front", "push_back", "pop_back"}
    /\ last'.outcome = "ok"

\* C14: a successful push_front, push_back or pop_back over pairwise distinct
\* rows changes the occupancy of each addressed row by exactly +1 (push) or
\* -1 (pop), and leaves begin, end, the occupancy and every slot of every row
\* that is not in the batch as they were.
RowIndependence ==
    [][(WriteReturned /\ ~Repeats(last'.rows)) =>
          \A r \in Rows :
              IF r \in Addressed(last'.rows)
              THEN get_number_of_entries'[r] =
                       get_number_of_entries[r] + (IF last'.op = "pop_back" THEN -1 ELSE 1)
              ELSE /\ begin'[r] = begin[r]
                   /\ end'[r] = end[r]
                   /\ get_number_of_entries'[r] = get_number_of_entries[r]
                   /\ \A s \in Slots : buf'[r][s] = buf[r][s]]_vars

\* C14 witness: a call over one row of a two-row buffer has just succeeded
\* while the other row, pushed and popped before, holds an entry.
OtherRowKeptSeen ==
    /\ number_rows = 2
    /\ last.op \in {"push_front", "push_back", "pop_back"} /\ last.outcome = "ok"
    /\ Len(last.rows) = 1
    /\ \E r \in Rows : r \notin Addressed(last.rows) /\ ~Empty(r) /\ r \in popped

\* C15: get_entries(offset), for every offset >= 0, also one larger than
\* row_length, and get_number_of_entries() never fail and leave begin, end
\* and every slot of every row as they were: each returns one value per row,
\* and the slot index get_entries computes for a row, the only place where
\* the call could raise, is a slot of the row.
ReadsPureAndTotal ==
    [][(last'.op \in {"get_entries", "get_number_of_entries"}) =>
          /\ last'.outcome = "ok"
          /\ Len(last'.result) = number_rows
          /\ UNCHANGED <<number_rows, row_length, buf, begin, end>>
          /\ last'.op = "get_entries" =>
                \A r \in Rows :
                    /\ entry_slot(last'.offset)[r] \in Slots
                    /\ last'.result[r + 1] \in Vals \cup {Sentinel}
          /\ last'.op = "get_number_of_entries" =>
                \A r \in Rows : last'.result[r + 1] \in 0..number_entries]_vars

\* C15 witness: get_entries has just returned for an offset larger than
\* row_length on a buffer with a non-empty row whose live range wraps.
LargeOffsetReadSeen ==
    /\ last.op = "get_entries" /\ last.outcome = "ok"
    /\ last.offset > row_length
    /\ \E r \in Rows : ~Empty(r) /\ end[r] < begin[r]

\* The value the previous call, a push, handed over for row r.
PushedTo(r) == last.entries[CHOOSE j \in 1..Len(last.rows) : last.rows[j] = r]

\* C16: push_front of v to a non-full row r followed immediately by pop_back
\* of r returns v and leaves r empty if and only if r was empty before the
\* push; when r was non-empty, the pop_back returns the back entry r had
\* before the push and v remains as the front entry of r. The first
\* conjunct relates the state after the push to the one before it (r holds
\* one entry exactly when it was empty, and keeps its back entry otherwise),
\* the second one the pop_back to the state after the push.
PushFrontPopBack ==
    [][/\ (last'.op = "push_front" /\ last'.outcome = "ok") =>
             \A r \in Addressed(last'.rows) :
                 /\ get_number_of_entries'[r] = 1 <=> Empty(r)
                 /\ ~Empty(r) => buf'[r][begin'[r]] = buf[r][begin[r]]
       /\ (last.op = "push_front" /\ last.outcome = "ok" /\ last'.op = "pop_back") =>
             \A r \in Addressed(last.rows) :
                 /\ last'.rows = <<r>> => last'.outcome = "ok"
                 /\ last'.outcome = "ok" =>
                       \A i \in 1..Len(last'.rows) :
                           last'.rows[i] = r =>
                               IF get_number_of_entries[r] = 1
                               THEN /\ last'.result[i] = PushedTo(r)
                                    /\ begin'[r] = end'[r]
                               ELSE /\ last'.result[i] = buf[r][begin[r]]
                                    /\ begin'[r] # end'[r]
                                    /\ buf'[r][(end'[r] - 1) % row_length] = PushedTo(r)
                                    /\ get_entries(0)'[r] = PushedTo(r)]_vars

\* C16 witness: pop_back of a row, directly after a push_front to it, has
\* returned an entry other than the pushed one, which remains as the front
\* entry of the row.
OldestPoppedAfterPushFrontSeen ==
    /\ after_push = "push_front"
    /\ last.op = "pop_back" /\ last.outcome = "ok"
    /\ \E r \in Rows :
          /\ last.rows = <<r>>
          /\ ~Empty(r)
          /\ last.result[1] # buf[r][(end[r] - 1) % row_length]

\* The index vector b with the element of every row of the batch moved one
\* slot up, and the occupancy vector n with it lowered by one.
OneSlotUp(b, rows) ==
    [r \in Rows |-> IF r \in Addressed(rows) THEN (b[r] + 1) % row_length ELSE b[r]]
OneLess(n, rows) ==
    [r \in Rows |-> IF r \in Addressed(rows) THEN n[r] - 1 ELSE n[r]]

IsPermutation(s, t) ==
    /\ Len(s) = Len(t)
    /\ Addressed(s) = Addressed(t)
    /\ ~Repeats(s) /\ ~Repeats(t)

\* C17: push_back(rows, values) over pairwise distinct non-full rows followed
\* immediately by pop_back over any permutation of the same rows returns the
\* just-pushed values in the order of the permuted rows and restores begin,
\* end and the occupancy of every row to their values before the push. The
\* first conjunct states what begin, end and the occupancy were before the
\* push in terms of the state after it, the second one that the pop_back
\* succeeds, returns the pushed values and produces exactly these vectors.
PushBackPopBack ==
    [][/\ (last'.op = "push_back" /\ last'.outcome = "ok" /\ ~Repeats(last'.rows)) =>
             /\ begin = OneSlotUp(begin', last'.rows)
             /\ end = end'
             /\ get_number_of_entries = OneLess(get_number_of_entries', last'.rows)
       /\ (/\ last.op = "push_back" /\ last.outcome = "ok"
           /\ last'.op = "pop_back" /\ IsPermutation(last'.rows, last.rows)) =>
             /\ last'.outcome = "ok"
             /\ Len(last'.result) = Len(last'.rows)
             /\ \A i \in 1..Len(last'.rows) : last'.result[i] = PushedTo(last'.rows[i])
             /\ begin' = OneSlotUp(begin, last.rows)
             /\ end' = end
             /\ get_number_of_entries' = OneLess(get_number_of_entries, last.rows)]_vars

\* C17 witness: pop_back(rows = [1, 0]), directly after a push_back over
\* both rows of an empty buffer, has returned two different values and left
\* both rows empty again.
RoundTripPermutedSeen ==
    /\ after_push = "push_back"
    /\ last.op = "pop_back" /\ last.outcome = "ok"
    /\ last.rows = <<1, 0>>
    /\ last.result[1] # last.result[2]
    /\ \A r \in Rows : Empty(r)

\* The letters of a word, lower-cased, in their order.
Normalized(w) ==
    SelectSeq([i \in 1..Len(w) |-> LowerChar(w[i])], LAMBDA c : c \in AToZ)

ReadsTheSameBackwards(w) == \A k \in 1..Len(w) : w[k] = w[Len(w) + 1 - k]

\* C18: is_palindrom(word) returns True exactly when the word, lower-cased
\* and without the characters outside a-z, reads the same forwards and
\* backwards, for every word over the alphabet, the empty word and the
\* words without letters included.
PalindromCorrect ==
    returned => (answer <=> ReadsTheSameBackwards(Normalized(word)))

\* C18 witness: is_palindrom has returned True for a word with an upper-case
\* letter and a non-letter whose letters are an odd number, at least 3, not
\* all the same.
MixedCasePalindromSeen ==
    /\ returned /\ answer
    /\ \E i, j \in 1..Len(word) : word[i] \in {"A", "B"} /\ word[j] = " "
    /\ Len(Normalized(word)) >= 3
    /\ Len(Normalized(word)) % 2 = 1
    /\ Normalized(word)[1] # Normalized(word)[2]

BothReturned == \A t \in Threads : thread[t].pc = Returned

DisjointRows == Addressed(thread[1].rows) \cap Addressed(thread[2].rows) = {}

\* The entries of row r of a buffer st from its back slot to its front slot.
LiveSeqOf(st, r) ==
    [k \in 1..((st.end[r] - st.begin[r]) % row_length) |->
        st.buf[r][(st.begin[r] + k - 1) % row_length]]

\* The two calls have returned what they return, and left begin, end and the
\* live contents of every row as they are, when the call of thread first
\* runs alone from the starting buffer and the other call after it.
MatchesSerial(first) ==
    LET second == CHOOSE t \in Threads : t # first
        ran1 == Run(at_start, thread[first])
        ran2 == Run(ran1.st, thread[second])
    IN  /\ thread[first].outcome = ran1.outcome
        /\ thread[first].values = ran1.values
        /\ thread[second].outcome = ran2.outcome
        /\ thread[second].values = ran2.values
        /\ begin = ran2.st.begin
        /\ end = ran2.st.end
        /\ \A r \in Rows :
              LiveSeqOf([buf |-> buf, begin |-> begin, end |-> end], r) =
                  LiveSeqOf(ran2.st, r)

\* C19: when two write calls that address disjoint sets of rows run
\* concurrently, interleaved step by step, both outcomes and the final begin,
\* end and live contents of every row are those of running the two calls one
\* after the other, in either order; and at every step in between begin and
\* end are slot indices and no row holds more than capacity entries.
DisjointRowsSerializable ==
    DisjointRows =>
        /\ \A r \in Rows :
              /\ begin[r] \in Slots /\ end[r] \in Slots
              /\ get_number_of_entries[r] \in 0..number_entries
        /\ BothReturned => MatchesSerial(1) /\ MatchesSerial(2)

\* C19 witness: a push_front to one row and a pop_back of the other row,
\* whose steps were interleaved, have both succeeded.
DisjointCallsInterleavedSeen ==
    /\ DisjointRows /\ BothReturned /\ interleaved
    /\ thread[1].op = "push_front" /\ thread[1].outcome = "ok"
    /\ thread[2].op = "pop_back" /\ thread[2].outcome = "ok"

\* Both calls are successful calls of op on the one row r.
BothDid(op, r) ==
    \A t \in Threads :
        /\ thread[t].pc = Returned /\ thread[t].outcome = "ok"
        /\ thread[t].op = op /\ thread[t].rows = <<r>>

StartCount(r) == (at_start.end[r] - at_start.begin[r]) % row_length

\* C20: two write calls that address a common row can end in a state that no
\* serial order of the two produces. Whenever two push_front calls to a row
\* r computed the same new end (each read end before the other wrote it)
\* and both succeed, the occupancy of r has risen by 1 only and r holds one
\* of the two values only; whenever two pop_back calls of r computed the same
\* new begin and both succeed, they return the same slot and the occupancy
\* has fallen by 1 only; neither outcome is that of a serial order.
OverlappingRowsRace ==
    \A r \in Rows :
        /\ (BothDid("push_front", r) /\ thread[1].after = thread[2].after) =>
              /\ get_number_of_entries[r] = StartCount(r) + 1
              /\ buf[r][(end[r] - 1) % row_length] \in {thread[1].entries[1], thread[2].entries[1]}
              /\ StartCount(r) >= 1 =>
                    buf[r][(end[r] - 2) % row_length] =
                        at_start.buf[r][(at_start.end[r] - 1) % row_length]
              /\ ~MatchesSerial(1) /\ ~MatchesSerial(2)
        /\ (BothDid("pop_back", r) /\ thread[1].after = thread[2].after) =>
              /\ get_number_of_entries[r] = StartCount(r) - 1
              /\ thread[1].rows_begin = thread[2].rows_begin
              /\ thread[1].values = thread[2].values
              /\ ~MatchesSerial(1) /\ ~MatchesSerial(2)

\* C20 witness: two push_front calls to one row have both succeeded, the row
\* holds one entry more than before and the value of thread 1 is not in it;
\* no serial order gives this.
LostPushSeen ==
    \E r \in Rows :
        /\ BothDid("push_front", r)
        /\ get_number_of_entries[r] = StartCount(r) + 1
        /\ buf[r][(end[r] - 1) % row_length] = thread[2].entries[1]
        /\ ~MatchesSerial(1) /\ ~MatchesSerial(2)

\* C20 witness of the second case: two pop_back calls of one row have both
\* succeeded and returned the entry of the same slot.
SameEntryPoppedTwiceSeen ==
    \E r \in Rows :
        /\ BothDid("pop_back", r)
        /\ thread[1].rows_begin = thread[2].rows_begin
        /\ get_number_of_entries[r] = StartCount(r) - 1
        /\ ~MatchesSerial(1) /\ ~MatchesSerial(2)

====
